---- MODULE Spec2Model ----
(***************************************************************************)
(* State-machine model of the vendor inventory tracker: the useStock,      *)
(* useAudit, useItems, useVendors and useChefs hooks, the App handlers     *)
(* built on them, the InventoryDashboard visibility filters and the stock  *)
(* list of the local-state variant of App (upsertStock, deleteRow).        *)
(*                                                                         *)
(* JavaScript values that may be null or undefined are records             *)
(* [t, s]; `??` and truthiness are the operators Coalesce and Truthy.      *)
(* Quantities are integers (JS numbers are exact on them below 2^53);      *)
(* a non-finite form input is the record NaN of ParseNumber.               *)
(* Record fields that no handler reads back (vendorId, note, unitCost,     *)
(* audit meta, email, sku) are left out of the records; the profileError   *)
(* state, which is only displayed, is the status of `result`.              *)
(***************************************************************************)
EXTENDS Integers, Sequences, FiniteSets, TLC

VARIABLES
    movements,    \* useStock: StockRow[] state, most recent first
    onHandByKey,  \* useStock: memoized Map<string, number>
    stock,        \* local-state variant of App: StockRow[] state, most recent first
    audit,        \* useAudit: AuditEntry[] state, most recent first
    items,        \* useItems: Item[] state
    vendors,      \* useVendors: Vendor[] state
    chefs,        \* useChefs: Chef[] state
    itemById,     \* useItems: memoized Map<ID, Item>
    vendorById,   \* useVendors: memoized Map<ID, Vendor>
    chefById,     \* useChefs: memoized Map<ID, Chef>
    session,      \* App: session state (Null or the signed-in user id)
    authReady,    \* App: authReady state
    profile,      \* App: profile state (NoProfile or a Profile)
    profileLoading, \* App: profileLoading state
    loadPending,  \* a loadProfile call of the current session effect is in flight
    formOwner,    \* InventoryDashboard: form.owner of the mounted dashboard, "" when none is
    profileSaving, \* App: profileSaving state
    savePending,  \* the handleProfileComplete calls that wait for upsertProfile
    nextId,       \* the next value genId hands out
    clock,        \* the wall clock, which moves on after each new Date()
    result        \* what the last call of a handler returned, reported or threw

vars == <<movements, onHandByKey, stock, audit, items, vendors, chefs, itemById, vendorById,
          chefById, session, authReady, profile, profileLoading, loadPending,
          formOwner, profileSaving, savePending, nextId, clock, result>>

stockVars == <<movements, onHandByKey, stock>>
itemVars == <<items, itemById>>
vendorVars == <<vendors, vendorById>>
chefVars == <<chefs, chefById>>
catalogVars == <<itemVars, vendorVars, chefVars>>
saveVars == <<profileSaving, savePending>>
authVars == <<session, authReady, profile, profileLoading, loadPending, formOwner, saveVars>>

-----------------------------------------------------------------------------
(* Bounds *)

MaxMovements == 2   \* addMovement calls in one behaviour of the hook on its own
MaxAudit == 2       \* audit entries written in one behaviour of the application
MaxCatalogAdds == 1 \* add* calls in one behaviour of the catalog hooks on their own
MaxBatch == 3       \* calls one handler issues before the next render

-----------------------------------------------------------------------------
(* JavaScript values *)

Null == [t |-> "null", s |-> ""]
Undefined == [t |-> "undefined", s |-> ""]
Str(x) == [t |-> "string", s |-> x]

\* v ?? d
Coalesce(v, d) == IF v.t \in {"null", "undefined"} THEN d ELSE v

\* truthiness of a string | null | undefined value
Truthy(v) == v.t = "string" /\ v.s # ""

\* const genId = () => crypto.randomUUID?.() ?? ...: a value never handed out before
genId(n) == "uuid_" \o ToString(n)

-----------------------------------------------------------------------------
(* Initial data of App.tsx *)

INITIAL_ITEMS ==
    << [id |-> "cnt_100ml", name |-> "100 ml Container", isActive |-> TRUE],
       [id |-> "cnt_200ml", name |-> "200 ml Container", isActive |-> TRUE],
       [id |-> "cnt_300ml", name |-> "300 ml Container", isActive |-> TRUE] >>

INITIAL_VENDORS ==
    << [id |-> "vendor_alpha", name |-> "Alpha Packaging", isActive |-> TRUE],
       [id |-> "vendor_beta", name |-> "Beta Box Co.", isActive |-> TRUE] >>

INITIAL_CHEFS ==
    << [id |-> "chef_aabha", name |-> "Chef Aabha", isActive |-> TRUE],
       [id |-> "chef_riya", name |-> "Chef Riya", isActive |-> TRUE] >>

INITIAL_MOVEMENTS ==
    << [id |-> "mv_warehouse_seed", timestamp |-> 1, chefId |-> Null,
        itemId |-> "cnt_200ml", type |-> "IN", quantity |-> 120],
       [id |-> "mv_ship_aabha", timestamp |-> 2, chefId |-> Str("chef_aabha"),
        itemId |-> "cnt_200ml", type |-> "OUT", quantity |-> 30],
       [id |-> "mv_ship_riya", timestamp |-> 3, chefId |-> Str("chef_riya"),
        itemId |-> "cnt_100ml", type |-> "OUT", quantity |-> 40] >>

\* the instant at which the application starts, after the seed timestamps
StartClock == 4

\* the stock list of the local-state variant, built when the component mounts
INITIAL_STOCK ==
    << [id |-> "s1", itemId |-> "it_flour", type |-> "IN", quantity |-> 10,
        timestamp |-> StartClock - 1, chefId |-> Null, note |-> Str("Initial stock")] >>

-----------------------------------------------------------------------------
(* Inputs: the values a caller can pass, by the TypeScript parameter types *)

\* ID = string: ids of the seed data and ids that hold the separator of Key
ItemIdInputs == {"cnt_200ml", "north::cnt_200ml"}
ChefIdStrings == {"chef_aabha", "chef_riya", "warehouse", "warehouse::north"}
\* MovementInput.chefId?: string | null, as callers of addMovement pass it:
\* left out of the object (Absent) or an own property, undefined included
Absent == [t |-> "absent", s |-> ""]
ChefIdInputs ==
    {Absent, Null, Undefined, Str("chef_aabha"), Str("warehouse"), Str("warehouse::north")}

\* reading a property: one that is left out reads as undefined
Read(v) == IF v = Absent THEN Undefined ELSE v
MovementTypes == {"IN", "OUT", "ADJUST"}
QuantityInputs == {1, 2}

MovementInputs ==
    [itemId : ItemIdInputs, type : MovementTypes,
     quantity : QuantityInputs, chefId : ChefIdInputs]

-----------------------------------------------------------------------------
(* useStock *)

\* mutant of Sign: an OUT movement adds to the balance
Sign_OutAdds(type) == IF type = "IN" THEN 1 ELSE IF type = "OUT" THEN 1 ELSE 0

\* const sign = mv.type === 'IN' ? 1 : mv.type === 'OUT' ? -1 : 0
Sign(type) == IF type = "IN" THEN 1 ELSE IF type = "OUT" THEN -1 ELSE 0

\* `${chefKey}::${mv.itemId}`
Key(chefKey, itemId) == chefKey \o "::" \o itemId

\* map.get(key) ?? 0
MapGet(map, key) == IF key \in DOMAIN map THEN map[key] ELSE 0

\* map.set(key, value)
MapSet(map, key, value) ==
    [k \in DOMAIN map \cup {key} |-> IF k = key THEN value ELSE map[k]]

EmptyMap == [k \in {} |-> 0]

\* for (const i of items) m.set(i.id, i), from the head of the list
RECURSIVE ByIdFold(_, _)
ByIdFold(rows, map) ==
    IF rows = << >> THEN map
    ELSE ByIdFold(Tail(rows), MapSet(map, Head(rows).id, Head(rows)))

\* useMemo(() => ..., [items]): the byId map, recomputed whenever the collection changes
ByIdMemo(rows, prevMemo) == ByIdFold(rows, EmptyMap)

\* mutant of FoldStep: an ADJUST movement sets the balance to its quantity
FoldStep_AdjustSets(map, mv) ==
    LET chefKey == Coalesce(mv.chefId, Str("warehouse")).s
        key == Key(chefKey, mv.itemId)
    IN IF mv.type = "ADJUST"
       THEN MapSet(map, key, mv.quantity)
       ELSE MapSet(map, key, MapGet(map, key) + Sign(mv.type) * mv.quantity)

\* one iteration of the loop of the onHandByKey memo
FoldStep(map, mv) ==
    LET chefKey == Coalesce(mv.chefId, Str("warehouse")).s
        key == Key(chefKey, mv.itemId)
    IN MapSet(map, key, MapGet(map, key) + Sign(mv.type) * mv.quantity)

\* for (const mv of movements) ..., from the head of the list
RECURSIVE FoldOnHand(_, _)
FoldOnHand(mvs, map) ==
    IF mvs = << >> THEN map
    ELSE FoldOnHand(Tail(mvs), FoldStep(map, Head(mvs)))

\* useMemo(() => ..., [movements]): recomputed whenever movements changes
OnHandMemo(mvs, prevMemo) == FoldOnHand(mvs, EmptyMap)

\* getOnHand(itemId, chefId = null) read against a memoized map
OnHandIn(map, itemId, chefId) ==
    MapGet(map, Key(Coalesce(chefId, Str("warehouse")).s, itemId))

getOnHand(itemId, chefId) == OnHandIn(onHandByKey, itemId, chefId)

\* movements.filter(mv => chefId === null ? mv.chefId === null : mv.chefId === chefId)
getChefInventory(chefId) ==
    SelectSeq(movements, LAMBDA mv : mv.chefId = chefId)

\* the StockRow built by addMovement:
\*   { id: genId(), timestamp: ..., chefId: movement.chefId ?? null, ...movement }
\* the spread writes every own property of the input over the three defaults
NewMovement(input, id, now) ==
    LET default == Coalesce(Read(input.chefId), Null)
    IN [id |-> id, timestamp |-> now,
        chefId |-> IF input.chefId = Absent THEN default ELSE input.chefId,
        itemId |-> input.itemId, type |-> input.type, quantity |-> input.quantity]

\* mutant of PrependMovement: the new record takes the place of the latest one
PrependMovement_Overwrite(prev, next) == <<next>> \o Tail(prev)

\* setMovements(prev => [next, ...prev])
PrependMovement(prev, next) == <<next>> \o prev

\* const movement = addMovement(input), with the re-render that follows it
AddMovement(input) ==
    /\ Len(movements) < Len(INITIAL_MOVEMENTS) + MaxMovements
    /\ LET next == NewMovement(input, genId(nextId), clock)
       IN /\ movements' = PrependMovement(movements, next)
          /\ onHandByKey' = OnHandMemo(movements', onHandByKey)
    /\ nextId' = nextId + 1
    /\ clock' = clock + 1
    /\ result' = [op |-> "addMovement", status |-> "ok"]
    /\ UNCHANGED <<stock, audit, catalogVars, authVars>>

-----------------------------------------------------------------------------
(* App state *)

NoProfile == [present |-> FALSE, id |-> "", role |-> "null", chefId |-> Null]

Init ==
    /\ movements = INITIAL_MOVEMENTS
    /\ onHandByKey = OnHandMemo(INITIAL_MOVEMENTS, EmptyMap)
    /\ stock = INITIAL_STOCK
    /\ audit = << >>
    /\ items = INITIAL_ITEMS
    /\ vendors = INITIAL_VENDORS
    /\ chefs = INITIAL_CHEFS
    /\ itemById = ByIdMemo(INITIAL_ITEMS, EmptyMap)
    /\ vendorById = ByIdMemo(INITIAL_VENDORS, EmptyMap)
    /\ chefById = ByIdMemo(INITIAL_CHEFS, EmptyMap)
    /\ session = Null
    /\ authReady = FALSE
    /\ profile = NoProfile
    /\ profileLoading = FALSE
    /\ loadPending = FALSE
    /\ formOwner = ""
    /\ profileSaving = FALSE
    /\ savePending = {}
    /\ nextId = 1
    /\ clock = StartClock
    /\ result = [op |-> "none", status |-> "ok"]

-----------------------------------------------------------------------------
(* The useStock hook on its own: any sequence of addMovement calls *)

NextStock == \E input \in MovementInputs : AddMovement(input)

SpecStock == Init /\ [][NextStock]_vars

\* The caller of addMovement holds `next`, the object that addMovement also
\* put at the head of the list (return next): an assignment to a field of the
\* returned record writes the stored record. No setter runs, so the memoized
\* on-hand map is not recomputed until the next setMovements.
ReturnedFields == {"itemId", "type", "quantity", "chefId", "timestamp"}
WrittenValues(field) ==
    CASE field = "itemId" -> {"north::cnt_200ml"}
      [] field = "type" -> {"OUT"}
      [] field = "quantity" -> {5}
      [] field = "chefId" -> {Str("chef_aabha")}
      [] field = "timestamp" -> {0}

\* const returned = addMovement(input); returned[field] = value
MutateReturned(field, value) ==
    /\ result.op = "addMovement"
    /\ movements' = [movements EXCEPT ![1] = [movements[1] EXCEPT ![field] = value]]
    /\ result' = [op |-> "mutateReturned", status |-> "ok"]
    /\ UNCHANGED <<stock, onHandByKey, audit, catalogVars, authVars, nextId, clock>>

ReturnedInputs ==
    {input \in MovementInputs :
        /\ input.itemId = "cnt_200ml"
        /\ input.type = "IN"
        /\ input.chefId \in {Null, Absent}}

NextReturned ==
    \/ \E input \in ReturnedInputs : AddMovement(input)
    \/ \E field \in ReturnedFields : \E value \in WrittenValues(field) :
          MutateReturned(field, value)

SpecReturned == Init /\ [][NextReturned]_vars

-----------------------------------------------------------------------------
(* useAudit *)

\* the AuditEntry built by log: { id: genId(), timestamp: ..., ...entry }
NewAuditEntry(entry, id, now) ==
    [id |-> id, timestamp |-> now, actor |-> entry.actor, action |-> entry.action,
     scope |-> entry.scope, chefId |-> entry.chefId, refId |-> entry.refId]

\* mutant of PrependAudit: the new entry goes to the end of the log
PrependAudit_AtEnd(prev, next) == prev \o <<next>>

\* setAudit(prev => [next, ...prev])
PrependAudit(prev, next) == <<next>> \o prev

-----------------------------------------------------------------------------
(* Several addMovement and log calls issued before the next render *)

\* the calls one handler issues in a row: addMovement(input) or log(entry)
BatchCalls ==
    {[kind |-> "addMovement", arg |-> input] :
        input \in {i \in MovementInputs :
                      /\ i.itemId = "cnt_200ml"
                      /\ i.quantity = 1
                      /\ i.type \in {"IN", "OUT"}
                      /\ i.chefId = Null}}
    \cup {[kind |-> "log",
           arg |-> [actor |-> "system", action |-> action, scope |-> "founder",
                    chefId |-> Null, refId |-> Absent]] :
           action \in {"stock.in", "stock.out"}}

Batches == UNION {[1..n -> BatchCalls] : n \in 2..MaxBatch}

\* the records the calls of a batch build, in call order: every call takes
\* its own genId() and new Date()
BatchRecords(calls) ==
    [k \in 1..Len(calls) |->
        [kind |-> calls[k].kind,
         next |-> IF calls[k].kind = "addMovement"
                  THEN NewMovement(calls[k].arg, genId(nextId + k - 1), clock + k - 1)
                  ELSE NewAuditEntry(calls[k].arg, genId(nextId + k - 1), clock + k - 1)]]

\* the queue of updaters one setter received, in call order
UpdaterQueue(records, kind) ==
    LET own == SelectSeq(records, LAMBDA r : r.kind = kind)
    IN [k \in 1..Len(own) |-> own[k].next]

\* mutant of ApplyMovementUpdaters: every call writes [next, ...movements]
\* with the list of the render it was made in, so the last call wins
RECURSIVE ApplyMovementUpdaters_RenderValue(_, _)
ApplyMovementUpdaters_RenderValue(prev, queue) ==
    IF queue = << >> THEN prev
    ELSE PrependMovement(prev, queue[Len(queue)])

\* React runs the queued updaters prev => [next, ...prev] in call order, each
\* on the result of the one before
RECURSIVE ApplyMovementUpdaters(_, _)
ApplyMovementUpdaters(prev, queue) ==
    IF queue = << >> THEN prev
    ELSE ApplyMovementUpdaters(PrependMovement(prev, Head(queue)), Tail(queue))

RECURSIVE ApplyAuditUpdaters(_, _)
ApplyAuditUpdaters(prev, queue) ==
    IF queue = << >> THEN prev
    ELSE ApplyAuditUpdaters(PrependAudit(prev, Head(queue)), Tail(queue))

\* a handler issues the calls of a batch, then the component renders again
Batch(calls) ==
    LET records == BatchRecords(calls)
        toStock == UpdaterQueue(records, "addMovement")
        toAudit == UpdaterQueue(records, "log")
    IN /\ Len(movements) + Len(toStock) <= Len(INITIAL_MOVEMENTS) + MaxMovements
       /\ Len(audit) + Len(toAudit) <= MaxAudit
       /\ movements' = ApplyMovementUpdaters(movements, toStock)
       /\ onHandByKey' = OnHandMemo(movements', onHandByKey)
       /\ audit' = ApplyAuditUpdaters(audit, toAudit)
       /\ nextId' = nextId + Len(calls)
       /\ clock' = clock + Len(calls)
       /\ result' = [op |-> "batch", status |-> "ok"]
       /\ UNCHANGED <<stock, catalogVars, authVars>>

NextBatch == \E calls \in Batches : Batch(calls)

SpecBatch == Init /\ [][NextBatch]_vars

-----------------------------------------------------------------------------
(* The local-state variant of App: upsertStock and deleteRow *)

\* the ids of the rows of a list
RowIds(rows) == {rows[k].id : k \in 1..Len(rows)}

\* args: Omit<StockRow, 'id' | 'timestamp'> & { id?: ID }; the id is left
\* out, the id of a row of the list, or an id no row has
UpsertArgs ==
    [id : {Absent, Str("s9")} \cup {Str(id) : id \in RowIds(stock)},
     itemId : {"it_flour"}, type : {"OUT"}, quantity : {1},
     chefId : {Absent, Str("chef_aabha")}, note : {Absent, Str("recount")}]

\* { ...args, chefId: args.chefId ?? null, id: args.id ?? genId() }
Normalized(args, freshId) ==
    [args EXCEPT !.chefId = Coalesce(Read(args.chefId), Null),
                 !.id = Coalesce(Read(args.id), Str(freshId)).s]

\* prev.findIndex(r => r.id === id), 0 for -1
FindIndex(prev, id) ==
    IF \E k \in 1..Len(prev) : prev[k].id = id
    THEN CHOOSE k \in 1..Len(prev) :
            prev[k].id = id /\ \A j \in 1..(k - 1) : prev[j].id # id
    ELSE 0

\* { ...normalized, timestamp: new Date().toISOString() }
InsertedRow(normalized, now) ==
    [id |-> normalized.id, itemId |-> normalized.itemId, type |-> normalized.type,
     quantity |-> normalized.quantity, timestamp |-> now,
     chefId |-> normalized.chefId, note |-> normalized.note]

\* mutant of UpdatedRow: an update stamps the row again
UpdatedRow_Restamped(old, normalized, now) ==
    [InsertedRow(normalized, now) EXCEPT
        !.note = IF normalized.note = Absent THEN old.note ELSE normalized.note]

\* { ...old, ...normalized, timestamp: old.timestamp ?? new Date().toISOString() }:
\* a property args leaves out keeps the value of the old row
UpdatedRow(old, normalized, now) ==
    [InsertedRow(normalized, old.timestamp) EXCEPT
        !.note = IF normalized.note = Absent THEN old.note ELSE normalized.note]

\* the updater of setStock in upsertStock
UpsertInto(prev, normalized, now) ==
    LET idx == FindIndex(prev, normalized.id)
    IN IF idx = 0
       THEN <<InsertedRow(normalized, now)>> \o prev
       ELSE [prev EXCEPT ![idx] = UpdatedRow(prev[idx], normalized, now)]

\* await upsertStock(args), with the render that follows it; genId runs only
\* for args without an id, new Date() only for an insert
UpsertStock(args) ==
    LET normalized == Normalized(args, genId(nextId))
        inserts == FindIndex(stock, normalized.id) = 0
    IN /\ inserts => Len(stock) < Len(INITIAL_STOCK) + MaxMovements
       /\ inserts => clock < StartClock + MaxMovements
       /\ stock' = UpsertInto(stock, normalized, clock)
       /\ nextId' = IF args.id = Absent THEN nextId + 1 ELSE nextId
       /\ clock' = IF inserts THEN clock + 1 ELSE clock
       /\ result' = [op |-> "upsertStock", status |-> normalized.id]
       /\ UNCHANGED <<movements, onHandByKey, audit, catalogVars, authVars>>

\* await deleteRow(id): setStock(prev => prev.filter(r => r.id !== id))
DeleteRow(id) ==
    /\ stock' = SelectSeq(stock, LAMBDA r : r.id # id)
    /\ result' = [op |-> "deleteRow", status |-> id]
    /\ UNCHANGED <<movements, onHandByKey, audit, catalogVars, authVars, nextId, clock>>

NextLocal ==
    \/ \E args \in UpsertArgs : UpsertStock(args)
    \/ \E id \in RowIds(stock) \cup {"s9"} : DeleteRow(id)

SpecLocal == Init /\ [][NextLocal]_vars

-----------------------------------------------------------------------------
(* useItems, useVendors, useChefs *)

\* what the callers pass as Omit<Item, 'id'>, Omit<Vendor, 'id'>, Omit<Chef, 'id'>
CatalogPartials == [name : {"", "New"}, isActive : {"absent", "true"}]

\* the row built by addItem, addVendor and addChef: { id: genId(), isActive: true, ...partial }
NewCatalogRow(partial, id) ==
    [id |-> id, name |-> partial.name,
     isActive |-> IF partial.isActive = "absent" THEN TRUE ELSE partial.isActive = "true"]

\* setItems(prev => [...prev, next]), and the same in useVendors and useChefs
AppendRow(prev, next) == prev \o <<next>>

\* what the callers pass as Partial<Item>, Partial<Vendor>, Partial<Chef>: each
\* property left out or given, the id among them
CatalogPatches(ids) ==
    [id : {Absent} \cup {Str(i) : i \in ids}, name : {Absent, Str("Renamed")}]

\* { ...i, ...patch }: every property of the patch is written over the row
MergePatch(row, patch) ==
    [id |-> IF patch.id = Absent THEN row.id ELSE patch.id.s,
     name |-> IF patch.name = Absent THEN row.name ELSE patch.name.s,
     isActive |-> row.isActive]

\* prev.map(i => (i.id === id ? { ...i, ...patch } : i))
UpdateRows(prev, id, patch) ==
    [k \in 1..Len(prev) |-> IF prev[k].id = id THEN MergePatch(prev[k], patch) ELSE prev[k]]

\* prev.filter(i => i.id !== id)
DeleteRows(prev, id) == SelectSeq(prev, LAMBDA r : r.id # id)

\* the ids callers pass to update* and delete*: ids of the seed rows and an unknown one
ItemIdArgs == {"cnt_100ml", "cnt_200ml", "cnt_missing"}
VendorIdArgs == {"vendor_alpha", "vendor_missing"}
ChefIdArgs == {"chef_aabha", "chef_missing"}

\* addItem(partial)
AddItem(partial) ==
    /\ nextId <= MaxCatalogAdds
    /\ items' = AppendRow(items, NewCatalogRow(partial, genId(nextId)))
    /\ itemById' = ByIdMemo(items', itemById)
    /\ nextId' = nextId + 1
    /\ result' = [op |-> "addItem", status |-> "ok"]
    /\ UNCHANGED <<stockVars, audit, vendorVars, chefVars, authVars, clock>>

\* updateItem(id, patch)
UpdateItem(id, patch) ==
    /\ items' = UpdateRows(items, id, patch)
    /\ itemById' = ByIdMemo(items', itemById)
    /\ result' = [op |-> "updateItem", status |-> "ok"]
    /\ UNCHANGED <<stockVars, audit, vendorVars, chefVars, authVars, nextId, clock>>

\* mutant of DeleteItem: the movements of the item go with it
DeleteItem_Cascade(id) ==
    /\ items' = DeleteRows(items, id)
    /\ itemById' = ByIdMemo(items', itemById)
    /\ movements' = SelectSeq(movements, LAMBDA mv : mv.itemId # id)
    /\ onHandByKey' = OnHandMemo(movements', onHandByKey)
    /\ result' = [op |-> "deleteItem", status |-> "ok"]
    /\ UNCHANGED <<stock, audit, vendorVars, chefVars, authVars, nextId, clock>>

\* deleteItem(id)
DeleteItem(id) ==
    /\ items' = DeleteRows(items, id)
    /\ itemById' = ByIdMemo(items', itemById)
    /\ result' = [op |-> "deleteItem", status |-> "ok"]
    /\ UNCHANGED <<stockVars, audit, vendorVars, chefVars, authVars, nextId, clock>>

\* addVendor(partial)
AddVendor(partial) ==
    /\ nextId <= MaxCatalogAdds
    /\ vendors' = AppendRow(vendors, NewCatalogRow(partial, genId(nextId)))
    /\ vendorById' = ByIdMemo(vendors', vendorById)
    /\ nextId' = nextId + 1
    /\ result' = [op |-> "addVendor", status |-> "ok"]
    /\ UNCHANGED <<stockVars, audit, itemVars, chefVars, authVars, clock>>

\* updateVendor(id, patch)
UpdateVendor(id, patch) ==
    /\ vendors' = UpdateRows(vendors, id, patch)
    /\ vendorById' = ByIdMemo(vendors', vendorById)
    /\ result' = [op |-> "updateVendor", status |-> "ok"]
    /\ UNCHANGED <<stockVars, audit, itemVars, chefVars, authVars, nextId, clock>>

\* deleteVendor(id)
DeleteVendor(id) ==
    /\ vendors' = DeleteRows(vendors, id)
    /\ vendorById' = ByIdMemo(vendors', vendorById)
    /\ result' = [op |-> "deleteVendor", status |-> "ok"]
    /\ UNCHANGED <<stockVars, audit, itemVars, chefVars, authVars, nextId, clock>>

\* addChef(partial)
AddChef(partial) ==
    /\ nextId <= MaxCatalogAdds
    /\ chefs' = AppendRow(chefs, NewCatalogRow(partial, genId(nextId)))
    /\ chefById' = ByIdMemo(chefs', chefById)
    /\ nextId' = nextId + 1
    /\ result' = [op |-> "addChef", status |-> "ok"]
    /\ UNCHANGED <<stockVars, audit, itemVars, vendorVars, authVars, clock>>

\* updateChef(id, patch)
UpdateChef(id, patch) ==
    /\ chefs' = UpdateRows(chefs, id, patch)
    /\ chefById' = ByIdMemo(chefs', chefById)
    /\ result' = [op |-> "updateChef", status |-> "ok"]
    /\ UNCHANGED <<stockVars, audit, itemVars, vendorVars, authVars, nextId, clock>>

\* deleteChef(id)
DeleteChef(id) ==
    /\ chefs' = DeleteRows(chefs, id)
    /\ chefById' = ByIdMemo(chefs', chefById)
    /\ result' = [op |-> "deleteChef", status |-> "ok"]
    /\ UNCHANGED <<stockVars, audit, itemVars, vendorVars, authVars, nextId, clock>>

\* The catalog hooks on their own: any sequence of add, update and delete calls
NextCatalog ==
    \/ \E partial \in CatalogPartials : AddItem(partial)
    \/ \E id \in ItemIdArgs : \E patch \in CatalogPatches({"cnt_200ml"}) : UpdateItem(id, patch)
    \/ \E id \in ItemIdArgs : DeleteItem(id)
    \/ \E partial \in CatalogPartials : AddVendor(partial)
    \/ \E id \in VendorIdArgs : \E patch \in CatalogPatches({"vendor_beta"}) :
            UpdateVendor(id, patch)
    \/ \E id \in VendorIdArgs : DeleteVendor(id)
    \/ \E partial \in CatalogPartials : AddChef(partial)
    \/ \E id \in ChefIdArgs : \E patch \in CatalogPatches({"chef_riya"}) : UpdateChef(id, patch)
    \/ \E id \in ChefIdArgs : DeleteChef(id)

SpecCatalog == Init /\ [][NextCatalog]_vars

-----------------------------------------------------------------------------
(* App handlers *)

UserIds == {"user_1"}

\* profile?.id ?? 'system'
ActorOrSystem == IF profile.present THEN profile.id ELSE "system"

\* the audit entry of handleAddChef(partial, scope, actorOverride)
ChefCreateEntry(chef, scope, actorOverride) ==
    [actor |-> Coalesce(actorOverride, Str(ActorOrSystem)).s,
     action |-> "chef.create", scope |-> scope, chefId |-> Str(chef.id), refId |-> Absent]

\* the audit entry of handleAddItem
ItemCreateEntry(item) ==
    [actor |-> ActorOrSystem, action |-> "catalog.item.create",
     scope |-> "founder", chefId |-> Null, refId |-> Absent]

\* the audit entry of handleAddVendor
VendorCreateEntry(vendor) ==
    [actor |-> ActorOrSystem, action |-> "catalog.vendor.create",
     scope |-> "founder", chefId |-> Null, refId |-> Absent]

\* payload.type.toLowerCase()
ToLowerCase(type) ==
    CASE type = "IN" -> "in" [] type = "OUT" -> "out" [] type = "ADJUST" -> "adjust"

\* mutant of MovementEntry: the entry refers to the item instead of the movement
MovementEntry_ItemRef(payload, movement) ==
    [actor |-> profile.id,
     action |-> "stock." \o ToLowerCase(payload.type),
     scope |-> IF Truthy(Read(payload.chefId)) THEN "chef" ELSE "founder",
     chefId |-> Coalesce(Read(payload.chefId), Null),
     refId |-> Str(payload.itemId)]

\* the audit entry of handleRecordMovement
MovementEntry(payload, movement) ==
    [actor |-> profile.id,
     action |-> "stock." \o ToLowerCase(payload.type),
     scope |-> IF Truthy(Read(payload.chefId)) THEN "chef" ELSE "founder",
     chefId |-> Coalesce(Read(payload.chefId), Null),
     refId |-> Str(movement.id)]

\* the state changes of handleAddChef: addChef(partial) and logAudit
AddChefAndLog(partial, scope, actorOverride) ==
    /\ LET chef == NewCatalogRow(partial, genId(nextId))
       IN /\ chefs' = AppendRow(chefs, chef)
          /\ chefById' = ByIdMemo(chefs', chefById)
          /\ audit' = PrependAudit(audit,
                NewAuditEntry(ChefCreateEntry(chef, scope, actorOverride),
                              genId(nextId + 1), clock))
    /\ nextId' = nextId + 2
    /\ clock' = clock + 1

\* handleAddChef(partial, scope = 'founder', actorOverride?)
HandleAddChef(partial, scope, actorOverride) ==
    /\ Len(audit) < MaxAudit
    /\ AddChefAndLog(partial, scope, actorOverride)
    /\ result' = [op |-> "handleAddChef", status |-> "ok"]
    /\ UNCHANGED <<stockVars, itemVars, vendorVars, authVars>>

\* handleAddItem(partial)
HandleAddItem(partial) ==
    /\ Len(audit) < MaxAudit
    /\ LET item == NewCatalogRow(partial, genId(nextId))
       IN /\ items' = AppendRow(items, item)
          /\ itemById' = ByIdMemo(items', itemById)
          /\ audit' = PrependAudit(audit,
                NewAuditEntry(ItemCreateEntry(item), genId(nextId + 1), clock))
    /\ nextId' = nextId + 2
    /\ clock' = clock + 1
    /\ result' = [op |-> "handleAddItem", status |-> "ok"]
    /\ UNCHANGED <<stockVars, vendorVars, chefVars, authVars>>

\* handleAddVendor(partial)
HandleAddVendor(partial) ==
    /\ Len(audit) < MaxAudit
    /\ LET vendor == NewCatalogRow(partial, genId(nextId))
       IN /\ vendors' = AppendRow(vendors, vendor)
          /\ vendorById' = ByIdMemo(vendors', vendorById)
          /\ audit' = PrependAudit(audit,
                NewAuditEntry(VendorCreateEntry(vendor), genId(nextId + 1), clock))
    /\ nextId' = nextId + 2
    /\ clock' = clock + 1
    /\ result' = [op |-> "handleAddVendor", status |-> "ok"]
    /\ UNCHANGED <<stockVars, itemVars, chefVars, authVars>>

\* the state changes of handleRecordMovement(payload) once the profile check has passed
RecordMovement(payload) ==
    LET movement == NewMovement(payload, genId(nextId), clock)
    IN /\ movements' = PrependMovement(movements, movement)
       /\ onHandByKey' = OnHandMemo(movements', onHandByKey)
       /\ audit' = PrependAudit(audit,
             NewAuditEntry(MovementEntry(payload, movement), genId(nextId + 1), clock + 1))
       /\ nextId' = nextId + 2
       /\ clock' = clock + 2

\* what the callers of the onRecordMovement prop can pass, by its parameter type
PayloadInputs ==
    [itemId : {"cnt_200ml"}, type : {"OUT"}, quantity : {0, 1},
     chefId : {Null, Str("chef_aabha")}]

\* mutant of HandleRecordMovement: the movement is added before the profile check
HandleRecordMovement_AddBeforeCheck(payload) ==
    /\ Len(audit) < MaxAudit
    /\ Len(movements) < Len(INITIAL_MOVEMENTS) + MaxAudit
    /\ IF ~profile.present
       THEN /\ movements' = PrependMovement(movements,
                                NewMovement(payload, genId(nextId), clock))
            /\ onHandByKey' = OnHandMemo(movements', onHandByKey)
            /\ nextId' = nextId + 1
            /\ clock' = clock + 1
            /\ result' = [op |-> "handleRecordMovement",
                          status |-> "Error: Profile not ready yet."]
            /\ UNCHANGED audit
       ELSE /\ RecordMovement(payload)
            /\ result' = [op |-> "handleRecordMovement", status |-> "ok"]
    /\ UNCHANGED <<stock, catalogVars, authVars>>

\* handleRecordMovement(payload)
HandleRecordMovement(payload) ==
    /\ Len(audit) < MaxAudit
    /\ IF ~profile.present
       THEN /\ result' = [op |-> "handleRecordMovement",
                          status |-> "Error: Profile not ready yet."]
            /\ UNCHANGED <<stockVars, audit, nextId, clock>>
       ELSE /\ RecordMovement(payload)
            /\ result' = [op |-> "handleRecordMovement", status |-> "ok"]
    /\ UNCHANGED <<stock, catalogVars, authVars>>

-----------------------------------------------------------------------------
(* App session and profile *)

\* the profile rows the database can hold for a user: role and chef_id
ProfileRows ==
    { [role |-> "Founder", chefId |-> Null],
      [role |-> "Home Chef", chefId |-> Str("chef_aabha")],
      [role |-> "null", chefId |-> Null] }

\* what fetchProfile does: it throws (getUser failed), resolves to null, or resolves
\* to the row found (a user without a row gets the role-less profile)
FetchOutcomes ==
    { [kind |-> "throws", role |-> "null", chefId |-> Null],
      [kind |-> "null", role |-> "null", chefId |-> Null] }
    \cup {[kind |-> "row", role |-> r.role, chefId |-> r.chefId] : r \in ProfileRows}

\* a promise that rejects instead of resolving to a session
Throws == [t |-> "throws", s |-> ""]

\* the render gates of App: the InventoryDashboard is on screen
DashboardShown ==
    /\ authReady
    /\ session # Null
    /\ ~profileLoading
    /\ profile.present
    /\ profile.role # "null"

\* const isFounder = profile.role === 'Founder'
isFounder(p) == p.role = "Founder"

\* const defaultOwner = isFounder ? 'warehouse' : (profile.chefId ?? 'warehouse')
defaultOwner(p) ==
    IF isFounder(p) THEN "warehouse" ELSE Coalesce(p.chefId, Str("warehouse")).s

\* useState(() => ({ owner: defaultOwner, ... })): the form state is built when
\* the dashboard mounts, kept while it stays on screen and dropped with it
MountedOwner ==
    IF ~DashboardShown' THEN ""
    ELSE IF DashboardShown THEN formOwner
    ELSE defaultOwner(profile')

\* the effect on [session]: clear the profile when signed out, else start loadProfile
SessionEffect(nextSession) ==
    IF nextSession = Null
    THEN /\ profile' = NoProfile
         /\ loadPending' = FALSE
         /\ UNCHANGED profileLoading
    ELSE /\ profileLoading' = TRUE
         /\ loadPending' = TRUE
         /\ UNCHANGED profile

\* bootstrap(): getActiveSession resolves or throws, then setAuthReady(true)
Bootstrap(current) ==
    /\ ~authReady
    /\ authReady' = TRUE
    /\ IF current = Throws \/ current = session
       THEN UNCHANGED <<session, profile, profileLoading, loadPending>>
       ELSE session' = current /\ SessionEffect(current)
    /\ UNCHANGED <<stockVars, audit, catalogVars, saveVars, nextId, clock, result>>
    /\ formOwner' = MountedOwner

\* the onAuthChange callback: setSession(nextSession ?? null)
AuthChange(nextSession) ==
    /\ nextSession # session
    /\ session' = nextSession
    /\ SessionEffect(nextSession)
    /\ UNCHANGED <<stockVars, audit, catalogVars, authReady, saveVars, nextId, clock, result>>
    /\ formOwner' = MountedOwner

\* loadProfile() of the current effect comes back from fetchProfile
LoadProfile(outcome) ==
    /\ loadPending
    /\ loadPending' = FALSE
    /\ profileLoading' = FALSE
    /\ profile' =
         IF outcome.kind = "throws" THEN profile
         ELSE IF outcome.kind = "null"
              THEN [present |-> TRUE, id |-> session.s, role |-> "null", chefId |-> Null]
              ELSE [present |-> TRUE, id |-> session.s,
                    role |-> outcome.role, chefId |-> outcome.chefId]
    /\ UNCHANGED <<stockVars, audit, catalogVars, session, authReady, saveVars, nextId, clock,
                   result>>
    /\ formOwner' = MountedOwner

\* handleSignOut, behind the Sign out button of the dashboard header
HandleSignOut ==
    /\ DashboardShown
    /\ session' = Null
    /\ profile' = NoProfile
    /\ loadPending' = FALSE
    /\ UNCHANGED <<stockVars, audit, catalogVars, authReady, profileLoading, saveVars,
                   nextId, clock, result>>
    /\ formOwner' = MountedOwner

-----------------------------------------------------------------------------
(* InventoryDashboard *)


\* if (!profile.chefId)
NoChefId(p) == ~Truthy(p.chefId)

\* mutant of visibleMovements: a chef is shown the warehouse movements too
visibleMovements_WithWarehouse(p, mvs) ==
    IF isFounder(p) THEN mvs
    ELSE IF NoChefId(p) THEN SelectSeq(mvs, LAMBDA mv : mv.chefId = Null)
    ELSE SelectSeq(mvs, LAMBDA mv : mv.chefId = p.chefId \/ mv.chefId = Null)

\* visibleMovements
visibleMovements(p, mvs) ==
    IF isFounder(p) THEN mvs
    ELSE IF NoChefId(p) THEN SelectSeq(mvs, LAMBDA mv : mv.chefId = Null)
    ELSE SelectSeq(mvs, LAMBDA mv : mv.chefId = p.chefId)

\* mutant of visibleAudit: a chef is shown every entry
visibleAudit_All(p, entries) == entries

\* visibleAudit
visibleAudit(p, entries) ==
    IF isFounder(p) THEN entries
    ELSE IF NoChefId(p) THEN SelectSeq(entries, LAMBDA e : e.scope = "founder")
    ELSE SelectSeq(entries, LAMBDA e : e.chefId = p.chefId \/ e.scope = "founder")

\* Number(form.quantity): the value, or NaN for text that is no number
ParseNumber(text) ==
    CASE text = "1" -> [finite |-> TRUE, value |-> 1]
      [] text = "0" -> [finite |-> TRUE, value |-> 0]
      [] text = "" -> [finite |-> TRUE, value |-> 0]
      [] OTHER -> [finite |-> FALSE, value |-> 0]

\* if (!Number.isFinite(quantity) || quantity <= 0)
QuantityRejected(quantity) == ~quantity.finite \/ quantity.value <= 0

\* the form states the dashboard lets the user reach: the owner select is shown to the
\* Founder only, every other role submits the owner the form holds; the kind buttons
\* are IN and OUT
FormStates(p) ==
    [owner : IF isFounder(p)
             THEN {"warehouse"} \cup {chefs[k].id : k \in 1..Len(INITIAL_CHEFS)}
             ELSE {formOwner},
     itemId : {"cnt_200ml"},
     type : {"IN", "OUT"},
     quantity : {"1", "0", "abc"}]

\* const payload: MovementInput = { ..., chefId: form.owner === 'warehouse' ? null : form.owner }
FormPayload(form, quantity) ==
    [itemId |-> form.itemId, type |-> form.type, quantity |-> quantity.value,
     chefId |-> IF form.owner = "warehouse" THEN Null ELSE Str(form.owner)]

\* handleSubmit of the movement form, handleRecordMovement included
HandleSubmit(form) ==
    /\ DashboardShown
    /\ Len(audit) < MaxAudit
    /\ LET quantity == ParseNumber(form.quantity)
       IN IF form.itemId = ""
          THEN /\ result' = [op |-> "handleSubmit", status |-> "Select a container."]
               /\ UNCHANGED <<stockVars, audit, nextId, clock>>
          ELSE IF QuantityRejected(quantity)
          THEN /\ result' = [op |-> "handleSubmit",
                             status |-> "Quantity must be a positive number."]
               /\ UNCHANGED <<stockVars, audit, nextId, clock>>
          ELSE /\ RecordMovement(FormPayload(form, quantity))
               /\ result' = [op |-> "handleSubmit", status |-> "Movement logged successfully."]
    /\ formOwner' = form.owner
    /\ UNCHANGED <<stock, catalogVars, session, authReady, profile, profileLoading,
                   loadPending, saveVars>>

\* text.trim()
Trim(text) == IF text = " " THEN "" ELSE text

\* mutant of CatalogSectionShown: the catalog forms are rendered for every role
CatalogSectionShown_AnyRole == DashboardShown

\* {isFounder && ( ... )}: the catalog forms of the dashboard are rendered
CatalogSectionShown == DashboardShown /\ isFounder(profile)

\* what the user can type into the name field of a catalog form
CatalogDrafts == [name : {" ", "New"}]

\* a catalog form was submitted with a blank name: if (!draft.name.trim()) return
BlankDraft(op) ==
    /\ result' = [op |-> op, status |-> "returned"]
    /\ UNCHANGED <<stockVars, audit, catalogVars, authVars, nextId, clock>>

\* handleAddItem of the dashboard, onCreateItem included
DashboardHandleAddItem(draft) ==
    /\ CatalogSectionShown
    /\ IF Trim(draft.name) = ""
       THEN BlankDraft("dashboard.handleAddItem")
       ELSE HandleAddItem([name |-> Trim(draft.name), isActive |-> "true"])

\* handleAddVendor of the dashboard, onCreateVendor included
DashboardHandleAddVendor(draft) ==
    /\ CatalogSectionShown
    /\ IF Trim(draft.name) = ""
       THEN BlankDraft("dashboard.handleAddVendor")
       ELSE HandleAddVendor([name |-> Trim(draft.name), isActive |-> "true"])

\* handleAddChef of the dashboard; onCreateChef is (partial) => handleAddChef(partial, 'founder')
DashboardHandleAddChef(draft) ==
    /\ CatalogSectionShown
    /\ IF Trim(draft.name) = ""
       THEN BlankDraft("dashboard.handleAddChef")
       ELSE HandleAddChef([name |-> Trim(draft.name), isActive |-> "true"], "founder", Undefined)

-----------------------------------------------------------------------------
(* ProfileSetup and handleProfileComplete *)

\* the render gates of App: the ProfileSetup screen is on screen
ProfileSetupShown ==
    /\ authReady
    /\ session # Null
    /\ ~profileLoading
    /\ profile.present
    /\ profile.role = "null"

\* the audit entry of handleProfileComplete
ProfileRoleEntry(user, role, chefId) ==
    [actor |-> user,
     action |-> "profile.role." \o (IF role = "Founder" THEN "founder" ELSE "chef"),
     scope |-> IF role = "Founder" THEN "founder" ELSE "chef",
     chefId |-> Coalesce(chefId, Null), refId |-> Absent]

\* handleProfileComplete(payload), up to its await of upsertProfile
HandleProfileComplete(payload) ==
    IF session = Null
    THEN /\ result' = [op |-> "handleProfileComplete", status |-> "returned"]
         /\ UNCHANGED <<stockVars, audit, catalogVars, authVars, nextId, clock>>
    ELSE LET given == Coalesce(Read(payload.chefId), Null)
             creates == /\ payload.role = "Home Chef"
                        /\ ~Truthy(given)
                        /\ Truthy(Read(payload.chefName))
             chefId == IF creates THEN Str(genId(nextId)) ELSE given
             throws == payload.role = "Home Chef" /\ ~Truthy(chefId)
         IN /\ IF creates
               THEN /\ Len(audit) < MaxAudit
                    /\ AddChefAndLog([name |-> payload.chefName.s, isActive |-> "true"],
                                     "chef", session)
               ELSE UNCHANGED <<chefVars, audit, nextId, clock>>
            /\ IF throws
               THEN /\ profileSaving' = FALSE
                    /\ UNCHANGED savePending
                    /\ result' = [op |-> "handleProfileComplete",
                                  status |-> "Select a kitchen or create a new one to continue."]
               ELSE /\ profileSaving' = TRUE
                    /\ savePending' = savePending \cup
                         {[user |-> session.s, role |-> payload.role, chefId |-> chefId]}
                    /\ result' = [op |-> "handleProfileComplete", status |-> "awaiting"]
            /\ UNCHANGED <<stockVars, itemVars, vendorVars, session, authReady, profile,
                           profileLoading, loadPending, formOwner>>

\* upsertProfile comes back to a handleProfileComplete call: it throws or
\* resolves to the saved profile
UpsertProfileReturns(call, outcome) ==
    /\ call \in savePending
    /\ savePending' = savePending \ {call}
    /\ profileSaving' = FALSE
    /\ IF outcome = "throws"
       THEN /\ result' = [op |-> "handleProfileComplete",
                          status |-> "Unable to save profile."]
            /\ UNCHANGED <<profile, audit, nextId, clock>>
       ELSE /\ Len(audit) < MaxAudit
            /\ profile' = [present |-> TRUE, id |-> call.user, role |-> call.role,
                           chefId |-> call.chefId]
            /\ audit' = PrependAudit(audit,
                  NewAuditEntry(ProfileRoleEntry(call.user, call.role, call.chefId),
                                genId(nextId), clock))
            /\ nextId' = nextId + 1
            /\ clock' = clock + 1
            /\ result' = [op |-> "handleProfileComplete", status |-> "ok"]
    /\ UNCHANGED <<stockVars, catalogVars, session, authReady, profileLoading, loadPending>>
    /\ formOwner' = MountedOwner

\* the states of the ProfileSetup form
SetupForms ==
    [role : {"Founder", "Home Chef"}, joinMode : {"existing", "new"},
     selectedChefId : {""} \cup {chefs[k].id : k \in {j \in 1..Len(chefs) : chefs[j].isActive}},
     chefName : {" ", "Kitchen"}]

\* the form reports an error of its own and calls nothing
SetupError(message) ==
    /\ result' = [op |-> "ProfileSetup.handleSubmit", status |-> message]
    /\ UNCHANGED <<stockVars, audit, catalogVars, authVars, nextId, clock>>

\* handleSubmit of ProfileSetup, onSubmit included; the button is disabled while saving
ProfileSetupHandleSubmit(form) ==
    /\ ProfileSetupShown
    /\ ~profileSaving
    /\ IF form.role = "Founder"
       THEN HandleProfileComplete([role |-> "Founder", chefId |-> Null, chefName |-> Absent])
       ELSE IF form.joinMode = "existing"
       THEN IF form.selectedChefId = ""
            THEN SetupError("Please select the kitchen you cook for.")
            ELSE HandleProfileComplete([role |-> "Home Chef",
                     chefId |-> Str(form.selectedChefId), chefName |-> Absent])
       ELSE IF Trim(form.chefName) = ""
            THEN SetupError("Please name your kitchen.")
            ELSE HandleProfileComplete([role |-> "Home Chef", chefId |-> Absent,
                     chefName |-> Str(Trim(form.chefName))])

-----------------------------------------------------------------------------
(* The application: the screens App renders, the handlers behind them and the session *)

Next ==
    \/ \E current \in {Null, Throws} \cup {Str(u) : u \in UserIds} : Bootstrap(current)
    \/ \E nextSession \in {Null} \cup {Str(u) : u \in UserIds} : AuthChange(nextSession)
    \/ \E outcome \in FetchOutcomes : LoadProfile(outcome)
    \/ HandleSignOut
    \/ \E draft \in CatalogDrafts : DashboardHandleAddChef(draft)
    \/ \E draft \in CatalogDrafts : DashboardHandleAddItem(draft)
    \/ \E draft \in CatalogDrafts : DashboardHandleAddVendor(draft)
    \/ \E form \in SetupForms : ProfileSetupHandleSubmit(form)
    \/ \E call \in savePending : \E outcome \in {"throws", "saved"} :
            UpsertProfileReturns(call, outcome)
    \/ \E payload \in PayloadInputs : HandleRecordMovement(payload)
    \/ \E form \in FormStates(profile) : HandleSubmit(form)

Spec == Init /\ [][Next]_vars

-----------------------------------------------------------------------------
(* Sessions of more than one user, and the calls the onSubmit prop can receive *)

\* the users that sign in on one browser
SessionUsers == {"user_1", "user_2"}

\* what the callers of handleProfileComplete can pass, by its parameter type
\* { role: Role; chefId?: string | null; chefName?: string }
CompletePayloads ==
    [role : {"Founder", "Home Chef"}, chefId : {Absent, Null, Str("chef_aabha")},
     chefName : {Absent, Str("Kitchen")}]

\* onSubmit(payload) of the ProfileSetup screen, its button enabled
OnSubmit(payload) ==
    /\ ProfileSetupShown
    /\ ~profileSaving
    /\ HandleProfileComplete(payload)

\* onRecordMovement(payload) of the dashboard on screen
OnRecordMovement(payload) ==
    /\ DashboardShown
    /\ HandleRecordMovement(payload)

NextAuth ==
    \/ \E current \in {Null, Throws} \cup {Str(u) : u \in SessionUsers} : Bootstrap(current)
    \/ \E nextSession \in {Null} \cup {Str(u) : u \in SessionUsers} : AuthChange(nextSession)
    \/ \E outcome \in FetchOutcomes : LoadProfile(outcome)
    \/ HandleSignOut
    \/ \E payload \in CompletePayloads : OnSubmit(payload)
    \/ \E call \in savePending : \E outcome \in {"throws", "saved"} :
            UpsertProfileReturns(call, outcome)
    \/ \E payload \in {p \in PayloadInputs : p.quantity = 1 /\ p.chefId = Null} :
            OnRecordMovement(payload)

SpecAuth == Init /\ [][NextAuth]_vars

-----------------------------------------------------------------------------
(* Startup and profile setup under fair scheduling: every promise App awaits settles *)

\* getActiveSession() settles
BootstrapSettles ==
    \E current \in {Null, Throws} \cup {Str(u) : u \in UserIds} : Bootstrap(current)

\* fetchProfile() settles
FetchSettles == \E outcome \in FetchOutcomes : LoadProfile(outcome)

\* upsertProfile() settles
UpsertSettles ==
    \E call \in savePending : \E outcome \in {"throws", "saved"} :
        UpsertProfileReturns(call, outcome)

NextStartup ==
    \/ BootstrapSettles
    \/ \E nextSession \in {Null} \cup {Str(u) : u \in UserIds} : AuthChange(nextSession)
    \/ FetchSettles
    \/ HandleSignOut
    \/ \E form \in SetupForms : ProfileSetupHandleSubmit(form)
    \/ UpsertSettles

SpecStartup ==
    /\ Init
    /\ [][NextStartup]_vars
    /\ WF_vars(BootstrapSettles)
    /\ WF_vars(FetchSettles)
    /\ WF_vars(UpsertSettles)

-----------------------------------------------------------------------------
(* Properties of useStock *)

ItemIds == ItemIdInputs \cup {"cnt_100ml"}
Owners == {Null} \cup {Str(c) : c \in ChefIdStrings}

\* the owner a stored movement belongs to: null and undefined are the warehouse
OwnerOf(mv) == Coalesce(mv.chefId, Null)

RECURSIVE SignedSum(_, _, _)
SignedSum(mvs, itemId, owner) ==
    IF mvs = << >> THEN 0
    ELSE LET mv == Head(mvs)
         IN (IF mv.itemId = itemId /\ OwnerOf(mv) = owner
             THEN (CASE mv.type = "IN" -> mv.quantity
                     [] mv.type = "OUT" -> 0 - mv.quantity
                     [] OTHER -> 0)
             ELSE 0) + SignedSum(Tail(mvs), itemId, owner)

\* the input a stored movement was recorded from
InputOf(mv) ==
    [itemId |-> mv.itemId, type |-> mv.type, quantity |-> mv.quantity, chefId |-> mv.chefId]

\* this step appended one movement at the head of the ledger
Appended == movements' = <<Head(movements')>> \o movements

\* C1: in every reachable state getOnHand(itemId, owner) is the sum of
\* sign(type)*quantity over the movements of the ledger with that itemId and
\* that owner (0 when there is none), so the memoized map is never stale.
C1_OnHandIsSignedSum ==
    \A i \in ItemIds : \A o \in Owners :
        getOnHand(i, o) = SignedSum(movements, i, o)

\* C2: a movement recorded for the warehouse (owner null) changes no
\* getOnHand(item, chefId), and a movement recorded for a chef changes no
\* getOnHand(item, null).
C2_OwnerPartitioning ==
    [][Appended =>
        LET new == Head(movements')
        IN /\ new.chefId = Null =>
                \A i \in ItemIds : \A c \in ChefIdStrings :
                    OnHandIn(onHandByKey', i, Str(c)) = getOnHand(i, Str(c))
           /\ new.chefId.t = "string" =>
                \A i \in ItemIds : OnHandIn(onHandByKey', i, Null) = getOnHand(i, Null)
      ]_vars

\* the inputs of the movements added since the start, in the order of the calls
AppendedInputs ==
    LET n == Len(movements) - Len(INITIAL_MOVEMENTS)
    IN [k \in 1..n |-> InputOf(movements[n - k + 1])]

\* the ledger after addMovement is called with each input of the sequence in turn
RECURSIVE Replay(_, _, _)
Replay(inputs, mvs, n) ==
    IF inputs = << >> THEN mvs
    ELSE Replay(Tail(inputs),
                PrependMovement(mvs, NewMovement(Head(inputs), genId(n), StartClock + n - 1)),
                n + 1)

Orderings(n) ==
    {p \in [1..n -> 1..n] : \A a, b \in 1..n : p[a] = p[b] => a = b}

C9_AppendOnly ==
    [][/\ Len(movements') >= Len(movements)
       /\ SubSeq(movements', Len(movements') - Len(movements) + 1, Len(movements'))
            = movements]_vars

\* two movements were added on top of the seed movements, which are still there
C9_Witness ==
    /\ Len(movements) = Len(INITIAL_MOVEMENTS) + 2
    /\ SubSeq(movements, 3, Len(movements)) = INITIAL_MOVEMENTS

\* C10: an OUT movement whose quantity exceeds the on-hand of its key is
\* accepted, and getOnHand of that key becomes the prior value minus the
\* quantity, negative values included.
C10_NegativeAllowed ==
    [][\A input \in MovementInputs :
         (/\ input.type = "OUT"
          /\ input.quantity > getOnHand(input.itemId, Read(input.chefId))
          /\ result'.op = "addMovement"
          /\ Len(movements') > Len(movements)
          /\ InputOf(Head(movements')) = InputOf(NewMovement(input, "", 0)))
         => /\ result'.status = "ok"
            /\ Appended
            /\ OnHandIn(onHandByKey', input.itemId, Read(input.chefId))
                 = getOnHand(input.itemId, Read(input.chefId)) - input.quantity
      ]_vars

\* the latest movement is an OUT that exceeded the on-hand of its key, which is now negative
C10_Witness ==
    /\ Len(movements) > Len(INITIAL_MOVEMENTS)
    /\ LET mv == Head(movements)
           prior == OnHandIn(OnHandMemo(Tail(movements), EmptyMap), mv.itemId, mv.chefId)
       IN /\ mv.type = "OUT"
          /\ mv.quantity > prior
          /\ getOnHand(mv.itemId, mv.chefId) < 0
          /\ getOnHand(mv.itemId, mv.chefId) = prior - mv.quantity

\* C14: getChefInventory(null) is exactly the warehouse movements and
\* getChefInventory(c) exactly the movements whose owner is c, in ledger
\* order, which is most recent first: each addMovement puts the new record at
\* the head and keeps the order of the earlier ones.
C14_MovementsForOwner ==
    /\ [](\A o \in Owners :
            getChefInventory(o) = SelectSeq(movements, LAMBDA mv : OwnerOf(mv) = o))
    /\ [][/\ Appended
           /\ Head(movements').timestamp >= Head(movements).timestamp]_vars

\* the signed sum of the quantities of the movements of a list for one item
RECURSIVE SumForItem(_, _)
SumForItem(mvs, itemId) ==
    IF mvs = << >> THEN 0
    ELSE LET mv == Head(mvs)
         IN (IF mv.itemId = itemId THEN Sign(mv.type) * mv.quantity ELSE 0)
            + SumForItem(Tail(mvs), itemId)

\* the entry of the on-hand map under which the fold counts a stored movement
FoldKey(mv) == Key(Coalesce(mv.chefId, Str("warehouse")).s, mv.itemId)

\* C21: mutating the record returned by addMovement (its id, itemId, type,
\* quantity, timestamp or chefId) changes neither the stored ledger entry nor
\* any getOnHand value: the ledger keeps its records as they were added and
\* the on-hand map stays the fold of the records as they were added.
C21_ReturnedRecordIsolated ==
    /\ [][result'.op = "mutateReturned"
            => movements' = movements /\ onHandByKey' = onHandByKey]_vars
    /\ [][\A k \in 1..Len(movements) :
            movements'[k + Len(movements') - Len(movements)] = movements[k]]_vars

\* the ids the calls of the step took
IssuedIds == {genId(n) : n \in nextId..(nextId' - 1)}

\* C25: no append is lost when several addMovement (or audit log) calls are
\* issued before the next render, in any interleaving of the two kinds of
\* call: every call's record is in its list afterwards, exactly once, ahead
\* of the records that were there, which are unchanged.
C25_NoLostAppends ==
    [][result'.op = "batch" =>
        /\ \A id \in IssuedIds :
              Cardinality({k \in 1..Len(movements') : movements'[k].id = id})
              + Cardinality({k \in 1..Len(audit') : audit'[k].id = id}) = 1
        /\ Len(movements') + Len(audit') = Len(movements) + Len(audit) + Cardinality(IssuedIds)
        /\ SubSeq(movements', Len(movements') - Len(movements) + 1, Len(movements')) = movements
        /\ SubSeq(audit', Len(audit') - Len(audit) + 1, Len(audit')) = audit
    ]_vars

\* one batch of two addMovement calls has rendered
C25_Witness ==
    /\ result.op = "batch"
    /\ nextId = 3
    /\ Len(movements) = Len(INITIAL_MOVEMENTS) + 2
    /\ movements[1].id = genId(2) /\ movements[2].id = genId(1)

\* the contract of upsertStock(args) for a step that made the call
UpsertContract(args) ==
    LET idx == FindIndex(stock, IF args.id = Absent THEN "" ELSE args.id.s)
    IN IF args.id # Absent /\ idx > 0
       THEN /\ Len(stock') = Len(stock)
            /\ stock'[idx].id = args.id.s
            /\ stock'[idx].timestamp = stock[idx].timestamp
            /\ stock'[idx].type = args.type
            /\ \A k \in 1..Len(stock) : k # idx => stock'[k] = stock[k]
       ELSE /\ Len(stock') = Len(stock) + 1
            /\ Tail(stock') = stock
            /\ Head(stock').timestamp = clock
            /\ \A k \in 1..Len(stock) : stock[k].timestamp < clock
            /\ Head(stock').id \notin RowIds(stock)
            /\ Head(stock').type = args.type
            /\ args.chefId = Absent => Head(stock').chefId = Null
            /\ args.chefId # Absent => Head(stock').chefId = args.chefId

\* C30: in the local-state variant, upsertStock with an id that is in the
\* stock list replaces that row in place, keeping the length of the list, the
\* position of the row and its original timestamp, and leaves every other row
\* unchanged; with no id or an unknown id it inserts exactly one new row at
\* the head with a fresh timestamp and chefId null when it was left out;
\* deleteRow(id) removes exactly the rows with that id.
C30_UpsertAndDelete ==
    /\ [][result'.op = "upsertStock" =>
            \A args \in UpsertArgs : UpsertStock(args) => UpsertContract(args)]_vars
    /\ [][result'.op = "deleteRow" =>
            \A id \in RowIds(stock) \cup {"s9"} :
                DeleteRow(id) => stock' = SelectSeq(stock, LAMBDA r : r.id # id)]_vars

\* an update of a row that is not at the head, after an insert
C30_Witness ==
    /\ result.op = "upsertStock"
    /\ Len(stock) = 2
    /\ stock[2].id = "s1" /\ result.status = "s1"
    /\ stock[2].type = "OUT"
    /\ stock[2].timestamp = StartClock - 1
    /\ stock[1].chefId = Null

\* C22: the two owner partitions agree: for every owner o and item i the
\* signed sum over getChefInventory(o) for item i is getOnHand(i, o), and no
\* stored movement is counted under an owner by the fold while it is absent
\* from the movement list of that owner.
C22_PartitionsAgree ==
    /\ \A i \in ItemIds : \A o \in Owners :
          SumForItem(getChefInventory(o), i) = getOnHand(i, o)
    /\ \A m \in 1..Len(movements) : \A i \in ItemIds : \A o \in Owners :
          FoldKey(movements[m]) = Key(Coalesce(o, Str("warehouse")).s, i)
          => \E k \in 1..Len(getChefInventory(o)) : getChefInventory(o)[k] = movements[m]

\* C23: adding a movement for the key (item i, owner o) leaves
\* getOnHand(i', o') as it was for every other pair (i', o'), for item ids
\* and chef ids that are arbitrary strings: two distinct (item, owner) pairs
\* never share an entry of the on-hand map.
C23_KeyIsolation ==
    /\ [][Appended =>
            LET new == Head(movements')
            IN \A i \in ItemIds : \A o \in Owners :
                 <<i, o>> # <<new.itemId, OwnerOf(new)>>
                 => OnHandIn(onHandByKey', i, o) = getOnHand(i, o)
         ]_vars
    /\ [](\A i, j \in ItemIds : \A o, q \in Owners :
            <<i, o>> # <<j, q>>
            => Key(Coalesce(o, Str("warehouse")).s, i) # Key(Coalesce(q, Str("warehouse")).s, j))

-----------------------------------------------------------------------------
(* Properties of the dashboard filters *)

\* a Home Chef profile with a chef id is on the dashboard
ChefOnDashboard ==
    DashboardShown /\ profile.role = "Home Chef" /\ Truthy(profile.chefId)

\* the entries of a list, as a set
Range(seq) == {seq[k] : k \in 1..Len(seq)}

\* C4: visibility isolation: for a Home Chef with chefId = a, visibleMovements
\* is exactly the movements of the ledger whose owner is a, in ledger order;
\* it holds no movement of another chef or of the warehouse.
C4_VisibilityIsolation ==
    ChefOnDashboard =>
        LET vis == visibleMovements(profile, movements)
            mine == {k \in 1..Len(movements) : movements[k].chefId = profile.chefId}
        IN /\ \A mv \in Range(vis) : mv.chefId # Null /\ mv.chefId = profile.chefId
           /\ \A k \in mine : movements[k] \in Range(vis)
           /\ Len(vis) = Cardinality(mine)
           /\ Range(vis) \subseteq Range(movements)

\* chef_aabha is on the dashboard after a movement of chef_aabha and one of
\* chef_riya were recorded
C4_Witness ==
    /\ ChefOnDashboard
    /\ profile.chefId = Str("chef_aabha")
    /\ Len(movements) = Len(INITIAL_MOVEMENTS) + 2
    /\ movements[1].chefId = Str("chef_riya")
    /\ movements[2].chefId = Str("chef_aabha")
    /\ Len(visibleMovements(profile, movements)) = 2

\* C5 as stated: visibleAudit partitions like visibleMovements: a Founder sees
\* every entry, a Home Chef with chefId = a sees exactly the entries whose
\* chefId is a, and none of the founder scope or of another chef.
C5_AuditSamePartition ==
    /\ (DashboardShown /\ isFounder(profile)) => visibleAudit(profile, audit) = audit
    /\ ChefOnDashboard =>
        LET vis == visibleAudit(profile, audit)
            mine == {k \in 1..Len(audit) : audit[k].chefId = profile.chefId}
        IN /\ \A e \in Range(vis) : e.chefId = profile.chefId /\ e.scope # "founder"
           /\ \A k \in mine : audit[k] \in Range(vis)
           /\ Len(vis) = Cardinality(mine)

\* C5 as amended: a Founder sees every audit entry; a Home Chef with
\* chefId = a sees exactly the entries whose chefId is a or whose scope is
\* 'founder', and never a chef-scope entry of another chef.
C5_AuditPartitionAmended ==
    /\ (DashboardShown /\ isFounder(profile)) => visibleAudit(profile, audit) = audit
    /\ ChefOnDashboard =>
        LET vis == visibleAudit(profile, audit)
            shown == {k \in 1..Len(audit) :
                        audit[k].chefId = profile.chefId \/ audit[k].scope = "founder"}
        IN /\ \A e \in Range(vis) : e.scope = "chef" => e.chefId = profile.chefId
           /\ \A k \in shown : audit[k] \in Range(vis)
           /\ Len(vis) = Cardinality(shown)
           /\ Range(vis) \subseteq Range(audit)

\* chef_aabha is on the dashboard; the log holds a founder-scope entry, which
\* is shown, and a chef-scope entry of chef_riya, which is not
C5_Witness ==
    /\ ChefOnDashboard
    /\ profile.chefId = Str("chef_aabha")
    /\ Len(audit) = 2
    /\ audit[1].scope = "chef" /\ audit[1].chefId = Str("chef_riya")
    /\ audit[2].scope = "founder"
    /\ visibleAudit(profile, audit) = <<audit[2]>>

-----------------------------------------------------------------------------
(* Properties of the audit trail *)

StockActions == {"stock." \o ToLowerCase(t) : t \in MovementTypes}

StockEntries == {k \in 1..Len(audit) : audit[k].action \in StockActions}

\* the last call was a recording that went through
RecordingSucceeded(r) ==
    \/ r.op = "handleRecordMovement" /\ r.status = "ok"
    \/ r.op = "handleSubmit" /\ r.status = "Movement logged successfully."

\* C6: every successful handleRecordMovement appends exactly one movement and
\* exactly one audit entry whose refId is the id of that movement; the audit
\* log holds one stock.* entry per movement recorded, each naming a distinct
\* movement of the ledger.
C6_MovementAuditCompleteness ==
    /\ [][(Len(movements') # Len(movements) \/ (nextId' # nextId /\ RecordingSucceeded(result')))
            => /\ Appended
               /\ RecordingSucceeded(result')
               /\ audit' = <<Head(audit')>> \o audit
               /\ Head(audit').action \in StockActions
               /\ Head(audit').refId = Str(Head(movements').id)
         ]_vars
    /\ [](/\ Cardinality(StockEntries) = Len(movements) - Len(INITIAL_MOVEMENTS)
          /\ \A k \in StockEntries :
                \E m \in 1..Len(movements) : audit[k].refId = Str(movements[m].id)
          /\ \A j, k \in StockEntries : audit[j].refId = audit[k].refId => j = k)

\* two movements were recorded and the log holds their two entries
C6_Witness ==
    /\ Len(movements) = Len(INITIAL_MOVEMENTS) + 2
    /\ Cardinality(StockEntries) = 2
    /\ audit[1].refId = Str(movements[1].id)
    /\ audit[2].refId = Str(movements[2].id)

\* this step added a row to one of the catalog collections
CatalogRowAdded(before, after) ==
    Len(after) = Len(before) + 1 /\ SubSeq(after, 1, Len(before)) = before

\* C7: every creation of an item, a vendor or a chef produces exactly one new
\* audit entry, and the refId of that entry is the id of the created entity.
C7_CatalogAuditCompleteness ==
    [][\A pair \in {<<items, items'>>, <<vendors, vendors'>>, <<chefs, chefs'>>} :
         CatalogRowAdded(pair[1], pair[2])
         => /\ audit' = <<Head(audit')>> \o audit
            /\ Head(audit').refId = Str(pair[2][Len(pair[2])].id)
      ]_vars

\* what the Ledger contract accepts: a finite quantity above 0 and a kind of the enumeration
ValidPayload(payload) == payload.quantity > 0 /\ payload.type \in MovementTypes

\* C8: recording a movement whose quantity is <= 0 or not finite, or whose
\* kind is not IN, OUT or ADJUST, fails with a ValidationError and leaves the
\* ledger and the audit log unchanged.
C8_ValidationRejection ==
    [][/\ \A payload \in PayloadInputs :
            (profile.present /\ ~ValidPayload(payload) /\ HandleRecordMovement(payload))
            => /\ result'.status = "ValidationError"
               /\ movements' = movements
               /\ audit' = audit
       /\ \A form \in FormStates(profile) :
            (QuantityRejected(ParseNumber(form.quantity)) /\ HandleSubmit(form))
            => /\ result'.status = "Quantity must be a positive number."
               /\ movements' = movements
               /\ audit' = audit
      ]_vars

-----------------------------------------------------------------------------
(* Properties of the catalog hooks *)

\* the three collections, before and after a step, with their byId maps
CatalogSteps == {<<items, items'>>, <<vendors, vendors'>>, <<chefs, chefs'>>}
CatalogViews == {<<items, itemById>>, <<vendors, vendorById>>, <<chefs, chefById>>}

DistinctIds(rows) == \A j, k \in 1..Len(rows) : rows[j].id = rows[k].id => j = k

\* C16: catalog identity is immutable: a step that keeps the rows of a
\* collection (an update) changes the id of none of them, and the ids within
\* each collection are pairwise distinct in every reachable state.
C16_CatalogIdentityImmutable ==
    /\ [][\A step \in CatalogSteps :
            Len(step[2]) = Len(step[1])
            => \A k \in 1..Len(step[1]) : step[2][k].id = step[1][k].id]_vars
    /\ [](\A view \in CatalogViews : DistinctIds(view[1]))

\* the rows an update* call must leave: the patch merged into the rows of that id
Merged(rows, id, patch) ==
    [k \in 1..Len(rows) |-> IF rows[k].id = id THEN MergePatch(rows[k], patch) ELSE rows[k]]

Known(rows, id) == \E k \in 1..Len(rows) : rows[k].id = id

\* what an update* call must do by its contract
UpdateContract(before, after, id, patch) ==
    IF Known(before, id)
    THEN after = Merged(before, id, patch)
    ELSE result'.status = "NotFoundError" /\ after = before

\* C17: update*(id, patch) on an id that is not in the collection fails with
\* NotFoundError and leaves the collection unchanged; on a known id it merges
\* the patch into that entity and leaves every other entity unchanged.
C17_UpdateNotFound ==
    [][/\ \A id \in ItemIdArgs : \A patch \in CatalogPatches({"cnt_200ml"}) :
            UpdateItem(id, patch) => UpdateContract(items, items', id, patch)
       /\ \A id \in VendorIdArgs : \A patch \in CatalogPatches({"vendor_beta"}) :
            UpdateVendor(id, patch) => UpdateContract(vendors, vendors', id, patch)
       /\ \A id \in ChefIdArgs : \A patch \in CatalogPatches({"chef_riya"}) :
            UpdateChef(id, patch) => UpdateContract(chefs, chefs', id, patch)
      ]_vars

\* the fields createItem accepts: a name that is not blank
ValidItemFields(partial) == partial.name # ""

\* C18: createItem with a missing or invalid name fails with ValidationError
\* and leaves the items and the audit log unchanged; with valid fields it
\* appends one item with a newly generated id, and isActive true when the
\* caller gave none.
C18_CreateItemValidation ==
    [][\A partial \in CatalogPartials :
         AddItem(partial)
         => IF ValidItemFields(partial)
            THEN /\ CatalogRowAdded(items, items')
                 /\ ~Known(items, items'[Len(items')].id)
                 /\ partial.isActive = "absent" => items'[Len(items')].isActive
            ELSE /\ result'.status = "ValidationError"
                 /\ items' = items
                 /\ audit' = audit
      ]_vars

\* the ledger and the on-hand map, from which every getOnHand value is read,
\* are what they were before the step
LedgerUntouched ==
    /\ movements' = movements
    /\ onHandByKey' = onHandByKey

\* C19: deleteItem, deleteVendor and deleteChef remove the catalog rows of
\* that id and nothing else: the other collections, the movements list and
\* every getOnHand(item, owner) stay as they were, also for movements that
\* refer to the deleted id.
C19_DeleteNoCascade ==
    [][/\ result'.op = "deleteItem"
            => /\ \E id \in ItemIdArgs : DeleteItem(id) /\ items' = DeleteRows(items, id)
               /\ vendors' = vendors /\ chefs' = chefs /\ LedgerUntouched
       /\ result'.op = "deleteVendor"
            => /\ \E id \in VendorIdArgs : DeleteVendor(id) /\ vendors' = DeleteRows(vendors, id)
               /\ items' = items /\ chefs' = chefs /\ LedgerUntouched
       /\ result'.op = "deleteChef"
            => /\ \E id \in ChefIdArgs : DeleteChef(id) /\ chefs' = DeleteRows(chefs, id)
               /\ items' = items /\ vendors' = vendors /\ LedgerUntouched
      ]_vars

\* the item cnt_200ml and the chef chef_aabha are gone from the catalog, the
\* seed movements that refer to them are in the ledger and still counted
C19_Witness ==
    /\ ~Known(items, "cnt_200ml")
    /\ ~Known(chefs, "chef_aabha")
    /\ \E m \in 1..Len(movements) :
          movements[m].itemId = "cnt_200ml" /\ movements[m].chefId = Str("chef_aabha")
    /\ getOnHand("cnt_200ml", Null) = 120
    /\ getOnHand("cnt_200ml", Str("chef_aabha")) = 0 - 30

\* C20: byId is consistent with its collection in every reachable state: it
\* has an entry for an id exactly when a row with that id is in the
\* collection, and byId.get(e.id) is e for every row e of the collection.
C20_ByIdConsistent ==
    \A view \in CatalogViews :
        /\ DOMAIN view[2] = {view[1][k].id : k \in 1..Len(view[1])}
        /\ \A k \in 1..Len(view[1]) : view[2][view[1][k].id] = view[1][k]

-----------------------------------------------------------------------------
(* Properties of the application handlers *)

\* every movement added since the start has its stock.* entry in the audit log
RecordedMovementsAudited ==
    \A m \in 1..(Len(movements) - Len(INITIAL_MOVEMENTS)) :
        \E k \in StockEntries : audit[k].refId = Str(movements[m].id)

\* C11: handleRecordMovement either appends one movement together with its
\* audit entry or fails and changes neither list; without a loaded profile it
\* throws and changes neither; no reachable state holds a movement it
\* appended without the audit entry of that movement.
C11_RecordMovementAtomic ==
    /\ [][\A payload \in PayloadInputs :
            HandleRecordMovement(payload)
            => /\ \/ /\ result'.status = "ok"
                     /\ Appended
                     /\ audit' = <<Head(audit')>> \o audit
                     /\ Head(audit').refId = Str(Head(movements').id)
                  \/ /\ result'.status # "ok"
                     /\ movements' = movements
                     /\ onHandByKey' = onHandByKey
                     /\ audit' = audit
               /\ ~profile.present => result'.status = "Error: Profile not ready yet."
         ]_vars
    /\ []RecordedMovementsAudited

\* a movement was recorded with its audit entry, the user signed out, and the
\* next handleRecordMovement threw and left both lists as they were
C11_Witness ==
    /\ result = [op |-> "handleRecordMovement", status |-> "Error: Profile not ready yet."]
    /\ ~profile.present
    /\ Len(movements) = Len(INITIAL_MOVEMENTS) + 1
    /\ Len(audit) = 1
    /\ audit[1].refId = Str(movements[1].id)

\* C12 as stated: a row is added to the items, vendors or chefs only while the
\* loaded profile has the role Founder.
C12_CatalogFounderOnly ==
    [][\A step \in CatalogSteps :
         step[2] # step[1] => profile.present /\ profile.role = "Founder"]_vars

\* the step is the kitchen creation of handleProfileComplete for the signed-in user
KitchenCreatedInSetup ==
    /\ ProfileSetupShown
    /\ CatalogRowAdded(chefs, chefs')
    /\ audit' = <<Head(audit')>> \o audit
    /\ Head(audit').action = "chef.create"
    /\ Head(audit').scope = "chef"
    /\ Head(audit').actor = session.s
    /\ \E call \in savePending' \ savePending :
          call.role = "Home Chef" /\ call.chefId = Str(chefs'[Len(chefs')].id)

\* C12 as amended: items and vendors are added only by a Founder on the
\* dashboard; a chef row is added either by a Founder on the dashboard or by
\* a signed-in user without a role who, in the profile setup, chooses Home
\* Chef and names a new kitchen.
C12_CatalogFounderOrSetup ==
    [][/\ (items' # items \/ vendors' # vendors) => (DashboardShown /\ isFounder(profile))
       /\ chefs' # chefs => ((DashboardShown /\ isFounder(profile)) \/ KitchenCreatedInSetup)
      ]_vars

\* a user without a role created a kitchen in the profile setup and is now its Home Chef
C12_Witness ==
    /\ Len(chefs) = Len(INITIAL_CHEFS) + 1
    /\ profile.present /\ profile.role = "Home Chef"
    /\ profile.chefId = Str(chefs[Len(chefs)].id)
    /\ \E k \in 1..Len(audit) :
          /\ audit[k].action = "chef.create"
          /\ audit[k].scope = "chef"
          /\ audit[k].chefId = profile.chefId

\* C13: every audit entry whose scope is 'founder' has chefId null, in every
\* reachable state of the audit log.
C13_FounderScopeNullChef ==
    \A k \in 1..Len(audit) : audit[k].scope = "founder" => audit[k].chefId = Null

\* C15: the audit log is append-only and ordered by creation: a step that
\* changes it adds exactly one entry, with a new id, at the head and leaves
\* the entries below as they were, in their order; timestamps never
\* increase from the head to the end.
C15_AuditAppendOnly ==
    /\ [][\/ audit' = audit
           \/ /\ audit' = <<Head(audit')>> \o audit
              /\ \A k \in 1..Len(audit) : audit[k].id # Head(audit').id
         ]_vars
    /\ [](\A j, k \in 1..Len(audit) : j < k => audit[j].timestamp >= audit[k].timestamp)

\* two entries were logged, the later one on top of the earlier one
C15_Witness ==
    /\ Len(audit) = 2
    /\ audit[1].id # audit[2].id
    /\ audit[1].timestamp > audit[2].timestamp

-----------------------------------------------------------------------------
(* Properties of the session, the profile and the profile setup *)

\* C24: tenant-scoped writes: every movement recorded through the dashboard
\* while the signed-in profile has the role Home Chef has that profile's
\* chefId as its owner; a Home Chef never appends a movement to the ledger of
\* the warehouse or of another chef.
C24_TenantScopedWrites ==
    [][(/\ result'.op = "handleSubmit"
        /\ profile.role = "Home Chef"
        /\ Len(movements') > Len(movements))
       => /\ Head(movements').chefId = profile.chefId
          /\ Head(movements').chefId # Null]_vars

\* C26: whenever the inventory dashboard is shown, or handleRecordMovement
\* writes an audit actor, the loaded profile belongs to the current session
\* (profile.id is session.user.id): under every interleaving of auth changes,
\* sign-out and profile fetches that succeed, fail or complete late, a
\* profile of a previous session is never used for the current one.
C26_ProfileOfCurrentSession ==
    /\ [](DashboardShown => profile.id = session.s)
    /\ [][(result'.op = "handleRecordMovement" /\ Len(audit') > Len(audit))
          => Head(audit').actor = session.s]_vars

\* the steps of handleProfileComplete: the call up to its await or its throw,
\* and the return of upsertProfile
CompleteCalled(payload) == session # Null /\ OnSubmit(payload)
SaveThrew == \E call \in savePending : UpsertProfileReturns(call, "throws")
Saved(call) == UpsertProfileReturns(call, "saved")

C28_FailedSaveLeavesNothing ==
    [][(/\ result'.op = "handleProfileComplete"
        /\ \/ \E payload \in CompletePayloads : CompleteCalled(payload)
           \/ SaveThrew)
       => /\ chefs' = chefs
          /\ audit' = audit
          /\ profile' = profile]_vars

\* the render gates of App: 'Loading your profile...' is on screen
LoadingShown ==
    /\ authReady
    /\ session # Null
    /\ profileLoading \/ ~profile.present

\* C29: startup and profile loading always make progress: authReady
\* eventually becomes true, also when getActiveSession throws; for a
\* signed-in session the application eventually leaves the 'Loading your
\* profile...' screen once the profile fetch completes, whether it succeeds,
\* returns nothing or throws; profileSaving is always eventually reset to
\* false.
C29_Progress ==
    /\ <>authReady
    /\ LoadingShown ~> ~LoadingShown
    /\ profileSaving ~> ~profileSaving

====
